---- MODULE Spec2Model ----
(***************************************************************************)
(* Model of the MCP file-manager server (src/src/index.ts).                *)
(*                                                                         *)
(* Strings are sequences of one-character strings, so <<"/", "r">> is the  *)
(* path "/r".  File content is a sequence of UTF-16 code units (integers), *)
(* the way a JavaScript string holds it; what is stored on disk is the     *)
(* sequence of Unicode scalar values that the UTF-8 encoding represents.   *)
(* Paths follow the POSIX flavour of Node's path module.                   *)
(***************************************************************************)
EXTENDS Integers, Sequences, FiniteSets, TLC

VARIABLES
    ALLOWED_BASE_PATH,  \* index.ts:13, fixed at start-up
    fs,                 \* the storage: absolute path -> node
    before,             \* the storage as it was when the last tool call began
    request,            \* the last tool call: name and arguments
    response,           \* what the call handler returned for it
    trace,              \* validatePath and storage calls of that call, in order
    vin,                \* argument of the last direct validatePath application
    vout,               \* its outcome
    listing             \* a listDirectory whose per-entry stats are under way

vars ==
    <<ALLOWED_BASE_PATH, fs, before, request, response, trace, vin, vout, listing>>

(***************************************************************************)
(* Bounds                                                                  *)
(***************************************************************************)
MaxTokens == 5      \* a validatePath argument is at most this many tokens
MaxContentLen == 1  \* a written text is at most this many pieces

(***************************************************************************)
(* Strings                                                                 *)
(***************************************************************************)
Slash == <<"/">>
Dot == <<".">>
DotDot == <<".", ".">>

startsWith(s, prefix) ==
    /\ Len(prefix) <= Len(s)
    /\ SubSeq(s, 1, Len(prefix)) = prefix

includes(s, sub) ==
    \E i \in 1..(Len(s) + 1) :
        /\ i + Len(sub) - 1 <= Len(s)
        /\ SubSeq(s, i, i + Len(sub) - 1) = sub

RECURSIVE SplitAcc(_, _, _)
SplitAcc(s, cur, acc) ==
    IF s = <<>> THEN Append(acc, cur)
    ELSE IF Head(s) = "/" THEN SplitAcc(Tail(s), <<>>, Append(acc, cur))
    ELSE SplitAcc(Tail(s), Append(cur, Head(s)), acc)

\* the segments of s between separators, empty ones included
Split(s) == SplitAcc(s, <<>>, <<>>)

RECURSIVE JoinSegs(_)
JoinSegs(segs) ==
    IF segs = <<>> THEN <<>>
    ELSE IF Len(segs) = 1 THEN segs[1]
    ELSE segs[1] \o Slash \o JoinSegs(Tail(segs))

RECURSIVE Concat(_)
Concat(parts) ==
    IF parts = <<>> THEN <<>> ELSE Head(parts) \o Concat(Tail(parts))

(***************************************************************************)
(* Node's path module, POSIX                                               *)
(***************************************************************************)
RECURSIVE NormSegs(_, _, _)
NormSegs(segs, res, allowAboveRoot) ==
    IF segs = <<>> THEN res
    ELSE LET s == Head(segs)
             rest == Tail(segs)
         IN  IF s = <<>> \/ s = Dot
             THEN NormSegs(rest, res, allowAboveRoot)
             ELSE IF s = DotDot
             THEN IF res # <<>> /\ res[Len(res)] # DotDot
                  THEN NormSegs(rest, SubSeq(res, 1, Len(res) - 1), allowAboveRoot)
                  ELSE IF allowAboveRoot
                  THEN NormSegs(rest, Append(res, DotDot), allowAboveRoot)
                  ELSE NormSegs(rest, res, allowAboveRoot)
             ELSE NormSegs(rest, Append(res, s), allowAboveRoot)

\* collapses ".", ".." and empty segments; the result has no leading or
\* trailing separator
normalizeString(path, allowAboveRoot) ==
    JoinSegs(NormSegs(Split(path), <<>>, allowAboveRoot))

isAbsolute(path) == path # <<>> /\ path[1] = "/"

\* path.normalize
normalize(path) ==
    IF path = <<>> THEN Dot
    ELSE LET abs == isAbsolute(path)
             trailingSeparator == path[Len(path)] = "/"
             n == normalizeString(path, ~abs)
         IN  IF n = <<>>
             THEN IF abs THEN Slash
                  ELSE IF trailingSeparator THEN <<".", "/">> ELSE Dot
             ELSE (IF abs THEN Slash ELSE <<>>) \o n
                  \o (IF trailingSeparator THEN Slash ELSE <<>>)

\* process.cwd(), the directory the server was started in
cwd == <<"/">>

\* the right-to-left loop of path.resolve: i = 0 stands for process.cwd()
RECURSIVE ResolveAcc(_, _, _, _)
ResolveAcc(paths, i, resolvedPath, resolvedAbsolute) ==
    IF resolvedAbsolute \/ i < 0 THEN <<resolvedPath, resolvedAbsolute>>
    ELSE LET p == IF i = 0 THEN cwd ELSE paths[i]
         IN  IF p = <<>>
             THEN ResolveAcc(paths, i - 1, resolvedPath, resolvedAbsolute)
             ELSE ResolveAcc(paths, i - 1, p \o Slash \o resolvedPath, p[1] = "/")

MutResolveJoins(paths) ==
    LET joined == JoinSegs(paths)
    IN  Slash \o normalizeString(IF isAbsolute(joined) THEN joined
                                  ELSE cwd \o Slash \o joined, FALSE)

\* path.resolve(...paths)
resolve(paths) ==
    LET r == ResolveAcc(paths, Len(paths), <<>>, FALSE)
        n == normalizeString(r[1], ~r[2])
    IN  IF r[2] THEN Slash \o n
        ELSE IF n = <<>> THEN Dot ELSE n

\* path.join(a, b)
join(a, b) ==
    LET joined == IF a = <<>> THEN b
                  ELSE IF b = <<>> THEN a
                  ELSE a \o Slash \o b
    IN  IF joined = <<>> THEN Dot ELSE normalize(joined)

\* the backward scan of path.dirname: the index of the separator that ends
\* the directory part, 0 when there is none
RECURSIVE DirnameEnd(_, _, _)
DirnameEnd(path, i, matchedSlash) ==
    IF i < 2 THEN 0
    ELSE IF path[i] = "/"
         THEN IF ~matchedSlash THEN i
              ELSE DirnameEnd(path, i - 1, matchedSlash)
         ELSE DirnameEnd(path, i - 1, FALSE)

\* path.dirname
dirname(path) ==
    IF path = <<>> THEN Dot
    ELSE LET hasRoot == path[1] = "/"
             end == DirnameEnd(path, Len(path), TRUE)
         IN  IF end = 0 THEN (IF hasRoot THEN Slash ELSE Dot)
             ELSE IF hasRoot /\ end = 2 THEN <<"/", "/">>
             ELSE SubSeq(path, 1, end - 1)

(***************************************************************************)
(* validatePath (index.ts:216-230)                                         *)
(***************************************************************************)
NoPath == <<>>

MutAcceptsNamePrefix(base, resolvedPath) ==
    startsWith(normalize(resolvedPath), normalize(base))

\* the condition under which validatePath does not throw
Accepts(base, resolvedPath) ==
    LET normalizedAllowedBasePath == normalize(base \o Slash)
        normalizedResolvedPath == normalize(resolvedPath)
    IN  \/ startsWith(normalizedResolvedPath, normalizedAllowedBasePath)
        \/ normalizedResolvedPath = normalize(base)

\* validatePath has not been applied yet
NotApplied == [ok |-> FALSE, path |-> NoPath, error |-> "not applied"]

MutValidateNeverThrows(base, inputPath) ==
    [ok |-> TRUE, path |-> resolve(<<base, inputPath>>), error |-> "none"]

\* the body of validatePath: the resolved path, or the error it throws
validatePathBody(base, inputPath) ==
    LET resolvedPath == resolve(<<base, inputPath>>)
    IN  IF Accepts(base, resolvedPath)
        THEN [ok |-> TRUE, path |-> resolvedPath, error |-> "none"]
        ELSE [ok |-> FALSE, path |-> NoPath, error |-> "Access denied"]

\* the base directory the server is configured with
FsRoots == {<<"/", "r">>}

\* request paths: the base directory itself, entries beneath it, and a
\* sibling of the base directory reached with ".."
ReqPaths == {<<>>, Dot, <<"a">>, <<"a", "/", "b">>, <<"a", "/", "c">>,
             <<".", ".", "/", "r", "2">>}

\* validatePath is a pure function of its two strings: its outcomes for the
\* tool calls of the model, computed once
Validated == [b \in FsRoots, p \in ReqPaths |-> validatePathBody(b, p)]

validatePath(base, inputPath) ==
    IF <<base, inputPath>> \in DOMAIN Validated
    THEN Validated[base, inputPath]
    ELSE validatePathBody(base, inputPath)

(***************************************************************************)
(* Text encoding: fs.writeFile(..., "utf-8") and fs.readFile(..., "utf-8") *)
(***************************************************************************)
HighFirst == 55296      \* 0xD800
LowFirst == 56320       \* 0xDC00
LowLast == 57343        \* 0xDFFF
Replacement == 65533    \* U+FFFD
Supplementary == 65536  \* 0x10000

isHigh(u) == HighFirst <= u /\ u < LowFirst
isLow(u) == LowFirst <= u /\ u <= LowLast

\* the scalar values whose UTF-8 encoding is written for a string: a
\* surrogate pair is one scalar, an unpaired surrogate becomes U+FFFD
RECURSIVE encode(_)
encode(units) ==
    IF units = <<>> THEN <<>>
    ELSE LET u == Head(units)
         IN  IF isHigh(u) /\ Len(units) >= 2 /\ isLow(units[2])
             THEN <<Supplementary + (u - HighFirst) * 1024 + (units[2] - LowFirst)>>
                  \o encode(Tail(Tail(units)))
             ELSE IF isHigh(u) \/ isLow(u)
             THEN <<Replacement>> \o encode(Tail(units))
             ELSE <<u>> \o encode(Tail(units))

\* the string decoded from stored scalar values
RECURSIVE decode(_)
decode(scalars) ==
    IF scalars = <<>> THEN <<>>
    ELSE LET c == Head(scalars)
         IN  IF c >= Supplementary
             THEN <<HighFirst + ((c - Supplementary) \div 1024),
                    LowFirst + ((c - Supplementary) % 1024)>> \o decode(Tail(scalars))
             ELSE <<c>> \o decode(Tail(scalars))

(***************************************************************************)
(* Storage: the calls of fs/promises the handlers make                     *)
(***************************************************************************)
Dir == [kind |-> "dir", content |-> <<>>]
File(scalars) == [kind |-> "file", content |-> scalars]

RECURSIVE Ancestors(_)
Ancestors(path) ==
    IF Len(path) <= 1 THEN {}
    ELSE {dirname(path)} \cup Ancestors(dirname(path))

basename(path) == LET segs == Split(path) IN segs[Len(segs)]

Children(f, path) == {q \in DOMAIN f : q # path /\ dirname(q) = path}

\* path itself and everything beneath it
Subtree(f, path) == {q \in DOMAIN f : q = path \/ path \in Ancestors(q)}

\* the errno of a lookup of a missing path
LookupError(f, path) ==
    IF \E q \in Ancestors(path) : q \in DOMAIN f /\ f[q].kind = "file"
    THEN "ENOTDIR" ELSE "ENOENT"

\* fs.stat and fs.access
stat(f, path) ==
    IF path \in DOMAIN f THEN [ok |-> TRUE, kind |-> f[path].kind, code |-> "none"]
    ELSE [ok |-> FALSE, kind |-> "none", code |-> LookupError(f, path)]

MutIsDirectoryNever(stats) == FALSE

\* stats.isDirectory()
isDirectory(stats) == stats.ok /\ stats.kind = "dir"

\* fs.readdir(path, {withFileTypes: true})
readdir(f, path) ==
    IF path \notin DOMAIN f THEN [ok |-> FALSE, items |-> {}, code |-> LookupError(f, path)]
    ELSE IF f[path].kind # "dir" THEN [ok |-> FALSE, items |-> {}, code |-> "ENOTDIR"]
    ELSE [ok |-> TRUE, code |-> "none",
          items |-> {[name |-> basename(q), kind |-> f[q].kind] : q \in Children(f, path)}]

MutWriteAppends(f, path, data) ==
    [ok |-> TRUE, code |-> "none",
     fs |-> IF path \in DOMAIN f
            THEN [f EXCEPT ![path] = File(f[path].content \o encode(data))]
            ELSE (path :> File(encode(data))) @@ f]

MutWriteNoTruncate(f, path, data) ==
    [ok |-> TRUE, code |-> "none",
     fs |-> IF path \in DOMAIN f
            THEN [f EXCEPT ![path] =
                     File(encode(data)
                          \o SubSeq(f[path].content, Len(encode(data)) + 1,
                                    Len(f[path].content)))]
            ELSE (path :> File(encode(data))) @@ f]

\* fs.writeFile(path, data, "utf-8"): creates or truncates
writeFileSys(f, path, data) ==
    IF path \in DOMAIN f /\ f[path].kind = "dir"
    THEN [ok |-> FALSE, code |-> "EISDIR", fs |-> f]
    ELSE IF dirname(path) \notin DOMAIN f \/ f[dirname(path)].kind # "dir"
    THEN [ok |-> FALSE, code |-> LookupError(f, path), fs |-> f]
    ELSE [ok |-> TRUE, code |-> "none", fs |-> (path :> File(encode(data))) @@ f]

MutMkdirNotRecursive(f, path) ==
    IF path \in DOMAIN f
    THEN [ok |-> FALSE, code |-> "EEXIST", fs |-> f]
    ELSE IF dirname(path) \notin DOMAIN f
    THEN [ok |-> FALSE, code |-> "ENOENT", fs |-> f]
    ELSE [ok |-> TRUE, code |-> "none", fs |-> (path :> Dir) @@ f]

\* fs.mkdir(path, {recursive: true})
mkdir(f, path) ==
    IF path \in DOMAIN f
    THEN IF f[path].kind = "dir"
         THEN [ok |-> TRUE, code |-> "none", fs |-> f]
         ELSE [ok |-> FALSE, code |-> "EEXIST", fs |-> f]
    ELSE IF LookupError(f, path) = "ENOTDIR"
    THEN [ok |-> FALSE, code |-> "ENOTDIR", fs |-> f]
    ELSE LET missing == {q \in Ancestors(path) \cup {path} : q \notin DOMAIN f}
         IN  [ok |-> TRUE, code |-> "none", fs |-> [q \in missing |-> Dir] @@ f]

Without(f, gone) == [q \in DOMAIN f \ gone |-> f[q]]

MutRmKeepsContents(f, path) == Without(f, {path})

\* fs.rm(path, {recursive: true, force: false}) of an existing directory
rm(f, path) == Without(f, Subtree(f, path))

MutUnlinkRemovesSiblings(f, path) == Without(f, Children(f, dirname(path)))

\* fs.unlink(path) of an existing file
unlink(f, path) == Without(f, {path})

(***************************************************************************)
(* Requests, responses and thrown errors                                   *)
(***************************************************************************)
\* a tool call: args is FALSE when the argument bag is absent; pathType and
\* contentType are the typeof of args.path and args.content
Request(name, args, pathType, path, contentType, content) ==
    [name |-> name, args |-> args, pathType |-> pathType, path |-> path,
     contentType |-> contentType, content |-> content]

NoRequest == Request("none", FALSE, "undefined", <<>>, "undefined", <<>>)

\* a response {content: [{type: "text", text}]}: text is prefix, tool, code,
\* syscall and path for an error, and code with path, text, entries or type
\* for a result; channel tells a returned response from a rejected call
Response(channel, prefix, tool, code, syscall, path, text, entries, type) ==
    [channel |-> channel, prefix |-> prefix, tool |-> tool, code |-> code,
     syscall |-> syscall, path |-> path, text |-> text, entries |-> entries,
     type |-> type]

NoResponse == Response("none", "", "", "", "", <<>>, <<>>, {}, "")

Success(code, path, text, entries, type) ==
    Response("result", "", "", code, "", path, text, entries, type)

\* an Error: code is the start of its message, path the path it quotes
Error(code, syscall, path) == [code |-> code, syscall |-> syscall, path |-> path]
NoError == Error("", "", <<>>)

Ev(fn, path) == [fn |-> fn, path |-> path]

Throw(f, tr, e) ==
    [fs |-> f, trace |-> tr, threw |-> TRUE, error |-> e, result |-> NoResponse]

Return(f, tr, result) ==
    [fs |-> f, trace |-> tr, threw |-> FALSE, error |-> NoError, result |-> result]

AccessDenied(inputPath) == Error("Access denied", "", inputPath)

RECURSIVE SetToSeq(_)
SetToSeq(S) ==
    IF S = {} THEN <<>>
    ELSE LET x == CHOOSE y \in S : TRUE IN <<x>> \o SetToSeq(S \ {x})

typeName(kind) == IF kind = "dir" THEN "directory" ELSE "file"

(***************************************************************************)
(* Tool implementations (index.ts:233-391).  Each is written as a chain of *)
(* operators, one per awaited call: the result of the call is the last     *)
(* parameter of the operator that continues after it.                      *)
(***************************************************************************)
\* the tool implementation is entered and calls validatePath
Begin(fn, inputPath) == <<Ev(fn, inputPath), Ev("validatePath", inputPath)>>

\* listDirectory: one entry of contents
entry(f, safePath, item) ==
    [name |-> item.name, type |-> typeName(item.kind),
     stats |-> stat(f, join(safePath, item.name)).ok]

MutStartedOnDirectory(safePath, item) ==
    [name |-> item.name, kind |-> item.kind, itemFullPath |-> safePath]

\* listDirectory: the items.map callback for one item, up to its await: it
\* has computed itemFullPath and called fs.stat
started(safePath, item) ==
    [name |-> item.name, kind |-> item.kind,
     itemFullPath |-> join(safePath, item.name)]

MutMappedRethrows(item, stats) ==
    [rejected |-> ~stats.ok,
     reason |-> Error(stats.code, "stat", item.itemFullPath),
     value |-> [name |-> item.name, type |-> typeName(item.kind),
                stats |-> stats.ok]]

\* listDirectory: the promise of that callback, settled after fs.stat
\* returned stats; the callback catches the error of fs.stat, so the promise
\* is never rejected
mapped(item, stats) ==
    [rejected |-> FALSE, reason |-> NoError,
     value |-> [name |-> item.name, type |-> typeName(item.kind),
                stats |-> stats.ok]]

\* listDirectory after fs.readdir
listDirectoryItems(f, dirPath, safePath, rd) ==
    IF ~rd.ok
    THEN Throw(f, Append(Begin("listDirectory", dirPath), Ev("fs.readdir", safePath)),
               Error(rd.code, "scandir", safePath))
    ELSE Return(f,
                Append(Begin("listDirectory", dirPath), Ev("fs.readdir", safePath))
                  \o SetToSeq({Ev("fs.stat", join(safePath, i.name)) : i \in rd.items}),
                Success("listing", dirPath, <<>>,
                        {entry(f, safePath, i) : i \in rd.items}, ""))

\* listDirectory after validatePath
listDirectoryAt(f, dirPath, v) ==
    IF ~v.ok THEN Throw(f, Begin("listDirectory", dirPath), AccessDenied(dirPath))
    ELSE listDirectoryItems(f, dirPath, v.path, readdir(f, v.path))

listDirectory(f, base, dirPath) ==
    listDirectoryAt(f, dirPath, validatePath(base, dirPath))

\* readFile after fs.stat
readFileStats(f, filePath, safePath, stats) ==
    IF ~stats.ok
    THEN Throw(f, Append(Begin("readFile", filePath), Ev("fs.stat", safePath)),
               Error(stats.code, "stat", safePath))
    ELSE IF isDirectory(stats)
    THEN Throw(f, Append(Begin("readFile", filePath), Ev("fs.stat", safePath)),
               Error("is a directory, not a file", "", filePath))
    ELSE Return(f,
                Begin("readFile", filePath)
                  \o <<Ev("fs.stat", safePath), Ev("fs.readFile", safePath)>>,
                Success("content", <<>>, decode(f[safePath].content), {}, ""))

\* readFile after validatePath
readFileAt(f, filePath, v) ==
    IF ~v.ok THEN Throw(f, Begin("readFile", filePath), AccessDenied(filePath))
    ELSE readFileStats(f, filePath, v.path, stat(f, v.path))

readFile(f, base, filePath) ==
    readFileAt(f, filePath, validatePath(base, filePath))

\* writeFile after fs.writeFile
writeFileWritten(filePath, safePath, parentDir, w) ==
    IF ~w.ok
    THEN Throw(w.fs,
               Begin("writeFile", filePath)
                 \o <<Ev("fs.access", parentDir), Ev("fs.stat", safePath),
                      Ev("fs.writeFile", safePath)>>,
               Error(w.code, "open", safePath))
    ELSE Return(w.fs,
                Begin("writeFile", filePath)
                  \o <<Ev("fs.access", parentDir), Ev("fs.stat", safePath),
                       Ev("fs.writeFile", safePath)>>,
                Success("File written successfully: ", filePath, <<>>, {}, ""))

MutWriteFileNoAccessCheck(f, filePath, content, safePath, parentDir, access, stats) ==
    IF isDirectory(stats)
    THEN Throw(f,
               Begin("writeFile", filePath)
                 \o <<Ev("fs.access", parentDir), Ev("fs.stat", safePath)>>,
               Error("is an existing directory", "", filePath))
    ELSE writeFileWritten(filePath, safePath, parentDir,
                          [ok |-> TRUE, code |-> "none",
                           fs |-> (safePath :> File(encode(content)))
                                  @@ mkdir(f, parentDir).fs])

MutWriteFileClearsTarget(f, filePath, content, safePath, parentDir, access, stats) ==
    IF ~access.ok
    THEN Throw(f, Append(Begin("writeFile", filePath), Ev("fs.access", parentDir)),
               Error("Parent directory does not exist or is not accessible", "",
                     filePath))
    ELSE IF isDirectory(stats)
    THEN Throw(rm(f, safePath),
               Begin("writeFile", filePath)
                 \o <<Ev("fs.access", parentDir), Ev("fs.stat", safePath)>>,
               Error("is an existing directory", "", filePath))
    ELSE IF ~stats.ok /\ stats.code # "ENOENT"
    THEN Throw(f,
               Begin("writeFile", filePath)
                 \o <<Ev("fs.access", parentDir), Ev("fs.stat", safePath)>>,
               Error(stats.code, "stat", safePath))
    ELSE writeFileWritten(filePath, safePath, parentDir,
                          writeFileSys(f, safePath, content))

\* writeFile after fs.access of the parent directory and fs.stat of the target
writeFileStats(f, filePath, content, safePath, parentDir, access, stats) ==
    IF ~access.ok
    THEN Throw(f, Append(Begin("writeFile", filePath), Ev("fs.access", parentDir)),
               Error("Parent directory does not exist or is not accessible", "",
                     filePath))
    ELSE IF isDirectory(stats)
    THEN Throw(f,
               Begin("writeFile", filePath)
                 \o <<Ev("fs.access", parentDir), Ev("fs.stat", safePath)>>,
               Error("is an existing directory", "", filePath))
    ELSE IF ~stats.ok /\ stats.code # "ENOENT"
    THEN Throw(f,
               Begin("writeFile", filePath)
                 \o <<Ev("fs.access", parentDir), Ev("fs.stat", safePath)>>,
               Error(stats.code, "stat", safePath))
    ELSE writeFileWritten(filePath, safePath, parentDir,
                          writeFileSys(f, safePath, content))

\* writeFile with parentDir = path.dirname(safePath)
writeFileIn(f, filePath, content, safePath, parentDir) ==
    writeFileStats(f, filePath, content, safePath, parentDir,
                   stat(f, parentDir), stat(f, safePath))

\* writeFile after validatePath
writeFileAt(f, filePath, content, v) ==
    IF ~v.ok THEN Throw(f, Begin("writeFile", filePath), AccessDenied(filePath))
    ELSE writeFileIn(f, filePath, content, v.path, dirname(v.path))

writeFile(f, base, filePath, content) ==
    writeFileAt(f, filePath, content, validatePath(base, filePath))

\* createDirectory after fs.mkdir
createDirectoryMade(dirPath, safePath, m) ==
    IF ~m.ok
    THEN Throw(m.fs, Append(Begin("createDirectory", dirPath), Ev("fs.mkdir", safePath)),
               Error(m.code, "mkdir", safePath))
    ELSE Return(m.fs, Append(Begin("createDirectory", dirPath), Ev("fs.mkdir", safePath)),
                Success("Directory created: ", dirPath, <<>>, {}, ""))

\* createDirectory after validatePath
createDirectoryAt(f, dirPath, v) ==
    IF ~v.ok THEN Throw(f, Begin("createDirectory", dirPath), AccessDenied(dirPath))
    ELSE createDirectoryMade(dirPath, v.path, mkdir(f, v.path))

createDirectory(f, base, dirPath) ==
    createDirectoryAt(f, dirPath, validatePath(base, dirPath))

\* deleteItem after fs.stat
deleteItemStats(f, itemPath, safePath, stats) ==
    IF ~stats.ok
    THEN Throw(f, Append(Begin("deleteItem", itemPath), Ev("fs.stat", safePath)),
               Error(stats.code, "stat", safePath))
    ELSE IF isDirectory(stats)
    THEN Return(rm(f, safePath),
                Begin("deleteItem", itemPath)
                  \o <<Ev("fs.stat", safePath), Ev("fs.rm", safePath)>>,
                Success("Deleted: ", itemPath, <<>>, {}, ""))
    ELSE Return(unlink(f, safePath),
                Begin("deleteItem", itemPath)
                  \o <<Ev("fs.stat", safePath), Ev("fs.unlink", safePath)>>,
                Success("Deleted: ", itemPath, <<>>, {}, ""))

\* deleteItem after validatePath
deleteItemAt(f, itemPath, v) ==
    IF ~v.ok THEN Throw(f, Begin("deleteItem", itemPath), AccessDenied(itemPath))
    ELSE deleteItemStats(f, itemPath, v.path, stat(f, v.path))

deleteItem(f, base, itemPath) ==
    deleteItemAt(f, itemPath, validatePath(base, itemPath))

MutGetFileInfoResolvedPath(f, itemPath, safePath, stats) ==
    IF ~stats.ok
    THEN Throw(f, Append(Begin("getFileInfo", itemPath), Ev("fs.stat", safePath)),
               Error(stats.code, "stat", safePath))
    ELSE Return(f, Append(Begin("getFileInfo", itemPath), Ev("fs.stat", safePath)),
                Success("info", safePath, <<>>, {}, typeName(stats.kind)))

\* getFileInfo after fs.stat
getFileInfoStats(f, itemPath, safePath, stats) ==
    IF ~stats.ok
    THEN Throw(f, Append(Begin("getFileInfo", itemPath), Ev("fs.stat", safePath)),
               Error(stats.code, "stat", safePath))
    ELSE Return(f, Append(Begin("getFileInfo", itemPath), Ev("fs.stat", safePath)),
                Success("info", itemPath, <<>>, {}, typeName(stats.kind)))

\* getFileInfo after validatePath
getFileInfoAt(f, itemPath, v) ==
    IF ~v.ok THEN Throw(f, Begin("getFileInfo", itemPath), AccessDenied(itemPath))
    ELSE getFileInfoStats(f, itemPath, v.path, stat(f, v.path))

getFileInfo(f, base, itemPath) ==
    getFileInfoAt(f, itemPath, validatePath(base, itemPath))

(***************************************************************************)
(* The CallToolRequestSchema handler (index.ts:154-212)                    *)
(***************************************************************************)
ToolNames == {"list_directory", "read_file", "write_file", "create_directory",
              "delete_item", "get_file_info"}

MissingArgument == Error("Missing or invalid argument", "", <<>>)

MutSwitchUnknownToInfo(f, base, req) ==
    IF ~req.args \/ req.pathType # "string" THEN Throw(f, <<>>, MissingArgument)
    ELSE IF req.name = "list_directory" THEN listDirectory(f, base, req.path)
    ELSE IF req.name = "read_file" THEN readFile(f, base, req.path)
    ELSE IF req.name = "write_file" /\ req.contentType = "string"
    THEN writeFile(f, base, req.path, req.content)
    ELSE IF req.name = "create_directory" THEN createDirectory(f, base, req.path)
    ELSE IF req.name = "delete_item" THEN deleteItem(f, base, req.path)
    ELSE getFileInfo(f, base, req.path)

MutSwitchUnchecked(f, base, req) ==
    IF req.name = "" THEN Throw(f, <<>>, Error("Tool name is missing or invalid.", "", <<>>))
    ELSE IF req.name \notin ToolNames THEN Throw(f, <<>>, Error("Unknown tool", "", <<>>))
    ELSE IF req.name = "list_directory" THEN listDirectory(f, base, req.path)
    ELSE IF req.name = "read_file" THEN readFile(f, base, req.path)
    ELSE IF req.name = "write_file" THEN writeFile(f, base, req.path, req.content)
    ELSE IF req.name = "create_directory" THEN createDirectory(f, base, req.path)
    ELSE IF req.name = "delete_item" THEN deleteItem(f, base, req.path)
    ELSE getFileInfo(f, base, req.path)

MutRetried(h) ==
    IF h.threw THEN Throw(h.fs, h.trace \o h.trace, h.error) ELSE h

MutSwitchRetries(f, base, req) ==
    IF req.name = "" THEN Throw(f, <<>>, Error("Tool name is missing or invalid.", "", <<>>))
    ELSE IF req.name \notin ToolNames THEN Throw(f, <<>>, Error("Unknown tool", "", <<>>))
    ELSE IF ~req.args \/ req.pathType # "string" THEN Throw(f, <<>>, MissingArgument)
    ELSE IF req.name = "list_directory" THEN listDirectory(f, base, req.path)
    ELSE IF req.name = "read_file" THEN readFile(f, base, req.path)
    ELSE IF req.name = "write_file"
    THEN IF req.contentType # "string" THEN Throw(f, <<>>, MissingArgument)
         ELSE writeFile(f, base, req.path, req.content)
    ELSE IF req.name = "create_directory" THEN createDirectory(f, base, req.path)
    ELSE IF req.name = "delete_item" THEN deleteItem(f, base, req.path)
    ELSE MutRetried(getFileInfo(f, base, req.path))

\* the try block: the switch on the tool name
Switch(f, base, req) ==
    IF req.name = "" THEN Throw(f, <<>>, Error("Tool name is missing or invalid.", "", <<>>))
    ELSE IF req.name \notin ToolNames THEN Throw(f, <<>>, Error("Unknown tool", "", <<>>))
    ELSE IF ~req.args \/ req.pathType # "string" THEN Throw(f, <<>>, MissingArgument)
    ELSE IF req.name = "list_directory" THEN listDirectory(f, base, req.path)
    ELSE IF req.name = "read_file" THEN readFile(f, base, req.path)
    ELSE IF req.name = "write_file"
    THEN IF req.contentType # "string" THEN Throw(f, <<>>, MissingArgument)
         ELSE writeFile(f, base, req.path, req.content)
    ELSE IF req.name = "create_directory" THEN createDirectory(f, base, req.path)
    ELSE IF req.name = "delete_item" THEN deleteItem(f, base, req.path)
    ELSE getFileInfo(f, base, req.path)

MutRethrows(name, error) ==
    Response(IF error.syscall # "" THEN "protocol error" ELSE "result",
             "Error processing tool '", IF name = "" THEN "unknown tool" ELSE name,
             error.code, error.syscall, error.path, <<>>, {}, "")

\* the catch block: the error becomes the text of a returned response
Caught(name, error) ==
    Response("result", "Error processing tool '",
             IF name = "" THEN "unknown tool" ELSE name,
             error.code, error.syscall, error.path, <<>>, {}, "")

\* the handler after the try block: what was thrown is caught
Finish(name, h) ==
    [fs |-> h.fs, trace |-> h.trace,
     response |-> IF h.threw THEN Caught(name, h.error) ELSE h.result]

\* the whole handler: storage afterwards, the calls made, the response
CallTool(f, base, req) == Finish(req.name, Switch(f, base, req))

(***************************************************************************)
(* The server: one tool call after another                                 *)
(***************************************************************************)
StorageCalls == {"fs.readdir", "fs.stat", "fs.access", "fs.readFile",
                 "fs.writeFile", "fs.mkdir", "fs.rm", "fs.unlink"}

\* what a text is made of: the letter "h", the surrogate pair of U+1F600,
\* and a high surrogate with no low surrogate after it
Pieces == {<<104>>, <<55357, 56832>>, <<55357>>}

Contents == {Concat(ps) : ps \in UNION {[1..k -> Pieces] : k \in 0..MaxContentLen}}

\* the filesystem at start-up: the base directory and a sibling beside it
InitFs ==
    (<<"/">> :> Dir) @@ (<<"/", "r">> :> Dir) @@ (<<"/", "r", "2">> :> Dir)

\* no listDirectory is under way
NoListing ==
    [phase |-> "none", dirPath |-> <<>>, safePath |-> <<>>, todo |-> {},
     settled |-> {}, thrown |-> NoError, late |-> {}]

Init ==
    /\ ALLOWED_BASE_PATH \in FsRoots
    /\ fs = InitFs
    /\ before = InitFs
    /\ request = NoRequest
    /\ response = NoResponse
    /\ trace = <<>>
    /\ vin = <<>>
    /\ vout = NotApplied
    /\ listing = NoListing

\* the state after a tool call req whose handler returned r
Handled(req, r) ==
    /\ before' = fs
    /\ request' = req
    /\ fs' = r.fs
    /\ trace' = r.trace
    /\ response' = r.response
    /\ listing' = NoListing
    /\ UNCHANGED <<ALLOWED_BASE_PATH, vin, vout>>

\* the server handles the tool call req
Serve(req) == Handled(req, CallTool(fs, ALLOWED_BASE_PATH, req))

\* the server handles a tool call with the given name and arguments
Handle(name, args, pathType, path, contentType, content) ==
    Serve(Request(name, args, pathType, path, contentType, content))

\* a call with a path argument only
PathCall(name, p) == Handle(name, TRUE, "string", p, "undefined", <<>>)

ListDirectory == \E p \in ReqPaths : /\ PathCall("list_directory", p)

ReadFile == \E p \in ReqPaths : /\ PathCall("read_file", p)

CreateDirectory == \E p \in ReqPaths : /\ PathCall("create_directory", p)

DeleteItem == \E p \in ReqPaths : /\ PathCall("delete_item", p)

GetFileInfo == \E p \in ReqPaths : /\ PathCall("get_file_info", p)

WriteFile ==
    \E p \in ReqPaths, c \in Contents :
        /\ Handle("write_file", TRUE, "string", p, "string", c)

\* a call without an argument bag, or with an argument that is no string
MalformedCall ==
    \E name \in ToolNames :
        \/ /\ Handle(name, FALSE, "undefined", <<>>, "undefined", <<>>)
        \/ /\ Handle(name, TRUE, "number", <<>>, "string", <<>>)
        \/ /\ name = "write_file"
           /\ Handle(name, TRUE, "string", <<"a">>, "number", <<>>)

\* a call of a tool that does not exist, or with an empty tool name
UnknownCall ==
    \E name \in {"rename_item", ""} :
        /\ Handle(name, TRUE, "string", <<"a">>, "undefined", <<>>)

Next ==
    \/ ListDirectory
    \/ ReadFile
    \/ WriteFile
    \/ CreateDirectory
    \/ DeleteItem
    \/ GetFileInfo
    \/ MalformedCall
    \/ UnknownCall

Spec == Init /\ [][Next]_vars

(***************************************************************************)
(* validatePath on its own: every base directory of Roots against every    *)
(* request path of Inputs                                                  *)
(***************************************************************************)
Tokens == {Slash, Dot, DotDot, <<"r">>, <<"r", "2">>, <<"a">>}

TokenSeqs == UNION {[1..k -> Tokens] : k \in 0..MaxTokens}

Inputs == {Concat(ts) : ts \in TokenSeqs}

\* values of MCP_FILE_BASE_PATH: plain, with a trailing separator, the
\* filesystem root, nested, and relative
Roots == {<<"/", "r">>, <<"/", "r", "/">>, <<"/">>,
          <<"/", "r", "/", "a">>, <<"r">>}

InitPath ==
    /\ ALLOWED_BASE_PATH \in Roots
    /\ fs = InitFs
    /\ before = InitFs
    /\ request = NoRequest
    /\ response = NoResponse
    /\ trace = <<>>
    /\ vin = <<>>
    /\ vout = NotApplied
    /\ listing = NoListing

Validate ==
    /\ vout = NotApplied
    /\ \E inputPath \in Inputs :
        /\ vin' = inputPath
        /\ vout' = validatePath(ALLOWED_BASE_PATH, inputPath)
    /\ UNCHANGED <<ALLOWED_BASE_PATH, fs, before, request, response, trace, listing>>

NextPath == Validate

SpecPath == InitPath /\ [][NextPath]_vars

(***************************************************************************)
(* Tool calls that overlap: listDirectory awaits fs.readdir and then, in   *)
(* Promise.all, one fs.stat per entry (index.ts:235-265); while it waits,  *)
(* the handler of another request may run.  The listing's stats complete   *)
(* one at a time, in any order, on the storage as it is at that moment.    *)
(***************************************************************************)
Pending == listing.phase = "pending"

\* listDirectory up to the return of fs.readdir, for a call that gets there
Enumerated(req, safePath, rd) ==
    /\ rd.ok
    /\ before' = fs
    /\ request' = req
    /\ response' = NoResponse
    /\ trace' = Append(Begin("listDirectory", req.path), Ev("fs.readdir", safePath))
    /\ listing' = [phase |-> "pending", dirPath |-> req.path, safePath |-> safePath,
                   todo |-> {started(safePath, i) : i \in rd.items},
                   settled |-> {}, thrown |-> NoError,
                   late |-> {}]
    /\ UNCHANGED <<ALLOWED_BASE_PATH, fs, vin, vout>>

EnumerateAt(req, v) ==
    /\ v.ok
    /\ Enumerated(req, v.path, readdir(fs, v.path))

Enumerate ==
    /\ ~Pending
    /\ \E p \in ReqPaths :
          EnumerateAt(Request("list_directory", TRUE, "string", p, "undefined", <<>>),
                      validatePath(ALLOWED_BASE_PATH, p))

\* the promise of one item settled as m; the item is late when its entry
\* was gone from the storage by then
Settled(item, m) ==
    /\ listing' = [listing EXCEPT
                     !.todo = @ \ {item},
                     !.settled = IF m.rejected THEN @ ELSE @ \cup {m.value},
                     !.thrown = IF m.rejected /\ @ = NoError THEN m.reason ELSE @,
                     !.late = IF listing.safePath \o Slash \o item.name \in DOMAIN fs
                              THEN @ ELSE @ \cup {item.name}]
    /\ trace' = Append(trace, Ev("fs.stat", item.itemFullPath))
    /\ UNCHANGED <<ALLOWED_BASE_PATH, fs, before, request, response, vin, vout>>

\* the fs.stat of one enumerated item completes
StatEntry ==
    /\ Pending
    /\ \E item \in listing.todo :
          Settled(item, mapped(item, stat(fs, item.itemFullPath)))

\* the handler's response for what listDirectory returned or threw
Responded(r) ==
    /\ response' = r.response
    /\ listing' = [listing EXCEPT !.phase = "responded"]
    /\ UNCHANGED <<ALLOWED_BASE_PATH, fs, before, request, trace, vin, vout>>

\* Promise.all settles: fulfilled when every promise is, rejected as soon
\* as one is
Respond ==
    /\ Pending
    /\ listing.todo = {} \/ listing.thrown # NoError
    /\ Responded(Finish(request.name,
                        IF listing.thrown # NoError
                        THEN Throw(fs, trace, listing.thrown)
                        ELSE Return(fs, trace,
                                    Success("listing", listing.dirPath, <<>>,
                                            listing.settled, ""))))

\* the effect of another request's handler on the storage
Interfered(r) ==
    /\ fs' = r.fs
    /\ UNCHANGED <<ALLOWED_BASE_PATH, before, request, response, trace, vin, vout,
                   listing>>

\* the texts written where calls overlap: the empty text and "h"
RaceContents == {<<>>, <<104>>}

\* while the listing waits, a delete_item request is handled
ConcurrentDelete ==
    /\ Pending
    /\ \E p \in ReqPaths :
          Interfered(CallTool(fs, ALLOWED_BASE_PATH,
                              Request("delete_item", TRUE, "string", p,
                                      "undefined", <<>>)))

\* while the listing waits, a write_file request is handled
ConcurrentWrite ==
    /\ Pending
    /\ \E p \in ReqPaths, c \in RaceContents :
          Interfered(CallTool(fs, ALLOWED_BASE_PATH,
                              Request("write_file", TRUE, "string", p,
                                      "string", c)))

\* a tool call with a path, handled while no listing waits
AlonePathCall ==
    /\ ~Pending
    /\ \E name \in ToolNames \ {"write_file"}, p \in ReqPaths : PathCall(name, p)

\* a write_file call handled while no listing waits
AloneWriteFile ==
    /\ ~Pending
    /\ \E p \in ReqPaths, c \in RaceContents :
          Handle("write_file", TRUE, "string", p, "string", c)

\* a call that reaches no tool implementation, while no listing waits
AloneRefused ==
    /\ ~Pending
    /\ MalformedCall \/ UnknownCall

NextRace ==
    \/ AlonePathCall
    \/ AloneWriteFile
    \/ AloneRefused
    \/ Enumerate
    \/ StatEntry
    \/ Respond
    \/ ConcurrentDelete
    \/ ConcurrentWrite

\* every storage call returns: a pending stat completes, Promise.all settles
SpecRace ==
    /\ Init
    /\ [][NextRace]_vars
    /\ WF_vars(StatEntry)
    /\ WF_vars(Respond)

(***************************************************************************)
(* Containment, stated on segments, independently of validatePath          *)
(***************************************************************************)
\* the directory names of an absolute path, outermost first
Names(path) == SelectSeq(Split(path), LAMBDA s : s # <<>>)

\* the directory the configured base path denotes
RootDir == resolve(<<ALLOWED_BASE_PATH>>)

IsPrefixSeq(a, b) == Len(a) <= Len(b) /\ SubSeq(b, 1, Len(a)) = a

\* path is RootDir or lies beneath it
InRoot(path) == isAbsolute(path) /\ IsPrefixSeq(Names(RootDir), Names(path))

\* path holds no ".", ".." or empty segment and no trailing separator
IsNormalAbsolute(path) ==
    /\ isAbsolute(path)
    /\ path = Slash \o JoinSegs(Names(path))
    /\ \A i \in 1..Len(Names(path)) : Names(path)[i] \notin {Dot, DotDot}

Applied == vout.error # "not applied"

\* C1: validatePath returns RootDir or a normalized path beneath RootDir, or
\* it throws "Access denied"; a sibling whose name extends the base
\* directory's name is never returned.
C1_Containment ==
    Applied =>
        /\ vout.ok => InRoot(vout.path) /\ IsNormalAbsolute(vout.path)
        /\ ~vout.ok => vout.error = "Access denied"

\* a request that leaves /r with ".." and comes back is accepted as /r/r2
C1_Witness ==
    /\ ALLOWED_BASE_PATH = <<"/", "r">>
    /\ includes(vin, DotDot)
    /\ vout.ok
    /\ vout.path = <<"/", "r", "/", "r", "2">>

\* the absolute path an absolute-looking request path denotes on its own
Standalone(inputPath) == Slash \o normalizeString(inputPath, FALSE)

RECURSIVE StripLeading(_)
StripLeading(inputPath) ==
    IF isAbsolute(inputPath) THEN StripLeading(Tail(inputPath)) ELSE inputPath

\* C4 as stated: an absolute-looking request path gets the outcome of the
\* same path without its leading separators, that is, it is joined with the
\* base directory.
C4_JoinedWithRoot ==
    (Applied /\ isAbsolute(vin)) =>
        vout = validatePath(ALLOWED_BASE_PATH, StripLeading(vin))

\* C4 amended: an absolute-looking request path is resolved on its own, not
\* joined with the base directory: validatePath returns that absolute path,
\* normalized, and only when it is the base directory or lies beneath it;
\* otherwise it throws "Access denied".
C4_AbsoluteStandsAlone ==
    (Applied /\ isAbsolute(vin)) =>
        /\ vout.ok => vout.path = Standalone(vin) /\ InRoot(vout.path)
        /\ ~InRoot(Standalone(vin)) => ~vout.ok /\ vout.error = "Access denied"

\* "/r/a" under the base directory /r is accepted as /r/a, where the path
\* joined with the base directory would be /r/r/a
C4_Witness ==
    /\ ALLOWED_BASE_PATH = <<"/", "r">>
    /\ vin = <<"/", "r", "/", "a">>
    /\ vout.ok
    /\ vout.path = <<"/", "r", "/", "a">>
    /\ validatePath(ALLOWED_BASE_PATH, StripLeading(vin)).path
         = <<"/", "r", "/", "r", "/", "a">>

\* C5 as stated: under every absolute base path, with or without a trailing
\* separator, a request path that resolves to the base directory is accepted
\* and yields it, and an accepted, non-empty request path is still accepted
\* with a separator appended.
C5_RootAccepted ==
    (Applied /\ isAbsolute(ALLOWED_BASE_PATH)) =>
        /\ resolve(<<ALLOWED_BASE_PATH, vin>>) = RootDir
              => vout.ok /\ vout.path = RootDir
        /\ (vout.ok /\ vin # <<>>)
              => validatePath(ALLOWED_BASE_PATH, vin \o Slash).ok

(***************************************************************************)
(* Tool calls                                                              *)
(***************************************************************************)
Called == request.name # "none"

\* the call reached a tool implementation with a string path
WellFormedCall ==
    /\ request.name \in ToolNames
    /\ request.args
    /\ request.pathType = "string"
    /\ request.name = "write_file" => request.contentType = "string"

CalledTool(name) == WellFormedCall /\ request.name = name

\* what the request path denotes, by segments
Target == resolve(<<ALLOWED_BASE_PATH, request.path>>)

IsErrorResponse == response.prefix = "Error processing tool '"

StorageEvents == {i \in DOMAIN trace : trace[i].fn \in StorageCalls}

\* the response of a tool call made now, in the present state
ResponseNow(name, path) ==
    CallTool(fs, ALLOWED_BASE_PATH,
             Request(name, TRUE, "string", path, "undefined", <<>>)).response

\* the storage after a tool call made now
FsAfterNow(name, path) ==
    CallTool(fs, ALLOWED_BASE_PATH,
             Request(name, TRUE, "string", path, "undefined", <<>>)).fs

NotFound(resp) ==
    /\ resp.prefix = "Error processing tool '"
    /\ resp.code = "ENOENT"

\* C2 as stated: no storage call of any request is made on a path outside the
\* base directory, the parent-directory check of write_file and the per-entry
\* stat of list_directory included.
C2_StorageInsideRoot ==
    \A i \in StorageEvents : InRoot(trace[i].path)

\* C3: when the request path does not stay inside the base directory, the
\* response is an error with "Access denied", validatePath is the first thing
\* the tool does, no storage call is made, and the storage is unchanged.
C3_DeniedBeforeStorage ==
    (WellFormedCall /\ ~InRoot(Target)) =>
        /\ IsErrorResponse
        /\ response.code = "Access denied"
        /\ response.tool = request.name
        /\ Len(trace) = 2
        /\ trace[2] = Ev("validatePath", request.path)
        /\ StorageEvents = {}
        /\ fs = before

\* delete_item of the sibling /r2 is denied, and /r2 is still there
C3_Witness ==
    /\ CalledTool("delete_item")
    /\ request.path = <<".", ".", "/", "r", "2">>
    /\ response.code = "Access denied"
    /\ <<"/", "r", "2">> \in DOMAIN fs

\* no surrogate without its partner
RECURSIVE WellFormed(_)
WellFormed(units) ==
    IF units = <<>> THEN TRUE
    ELSE IF isHigh(units[1])
    THEN Len(units) >= 2 /\ isLow(units[2]) /\ WellFormed(Tail(Tail(units)))
    ELSE ~isLow(units[1]) /\ WellFormed(Tail(units))

\* the storage holds a directory at path
IsDir(f, path) == path \in DOMAIN f /\ f[path].kind = "dir"
IsFile(f, path) == path \in DOMAIN f /\ f[path].kind = "file"

\* a path a file can be written at: inside the base directory, no directory
\* itself, and with an existing parent directory
Writable(f, path) ==
    InRoot(path) /\ ~IsDir(f, path) /\ IsDir(f, dirname(path))

\* C6 as stated, a valid path being one a file can be written at: write_file
\* of any text to a valid path succeeds, and a read_file of the path right
\* after it returns exactly that text.
C6_RoundTrip ==
    (CalledTool("write_file") /\ Writable(before, Target)) =>
        /\ ~IsErrorResponse
        /\ ResponseNow("read_file", request.path).prefix = ""
        /\ ResponseNow("read_file", request.path).text = request.content

\* C6 amended: write_file of a text without unpaired surrogates to a valid
\* path succeeds, and a read_file of the path right after it returns exactly
\* that text.
C6_RoundTripWellFormed ==
    (/\ CalledTool("write_file")
     /\ Writable(before, Target)
     /\ WellFormed(request.content)) =>
        /\ ~IsErrorResponse
        /\ response.code = "File written successfully: "
        /\ ResponseNow("read_file", request.path).prefix = ""
        /\ ResponseNow("read_file", request.path).code = "content"
        /\ ResponseNow("read_file", request.path).text = request.content

\* the surrogate pair of U+1F600 written over an older text and read back
C6_Witness ==
    /\ CalledTool("write_file")
    /\ request.content = <<55357, 56832>>
    /\ IsFile(before, Target)
    /\ before[Target].content # <<>>
    /\ ~IsErrorResponse
    /\ ResponseNow("read_file", request.path).text = <<55357, 56832>>

\* C7: delete_item of an existing directory succeeds and removes the
\* directory with everything beneath it and nothing else; get_file_info of
\* the path, and of every request path that led into the directory, then
\* returns a not-found error.
C7_DeleteDirectory ==
    (CalledTool("delete_item") /\ InRoot(Target) /\ IsDir(before, Target)) =>
        /\ ~IsErrorResponse
        /\ response.code = "Deleted: "
        /\ DOMAIN fs = DOMAIN before \ Subtree(before, Target)
        /\ \A q \in DOMAIN fs : fs[q] = before[q]
        /\ NotFound(ResponseNow("get_file_info", request.path))
        /\ \A p \in ReqPaths :
              (/\ validatePath(ALLOWED_BASE_PATH, p).ok
               /\ validatePath(ALLOWED_BASE_PATH, p).path \in Subtree(before, Target))
                  => NotFound(ResponseNow("get_file_info", p))

\* delete_item of the directory a, which held a file and a subdirectory
C7_Witness ==
    /\ CalledTool("delete_item")
    /\ request.path = <<"a">>
    /\ \E q1, q2 \in Children(before, Target) :
          before[q1].kind = "file" /\ before[q2].kind = "dir"
    /\ response.code = "Deleted: "
    /\ Target \notin DOMAIN fs

\* C8: read_file of a directory returns the error "is a directory, not a
\* file" and no content; write_file to an existing directory returns the
\* error "is an existing directory" and leaves the storage as it was.
C8_TypeGuard ==
    /\ (CalledTool("read_file") /\ InRoot(Target) /\ IsDir(before, Target)) =>
          /\ IsErrorResponse
          /\ response.code = "is a directory, not a file"
          /\ response.text = <<>>
    /\ (CalledTool("write_file") /\ InRoot(Target) /\ IsDir(before, Target)) =>
          /\ IsErrorResponse
          /\ response.code = "is an existing directory"
          /\ fs = before
          /\ IsDir(fs, Target)

\* write_file of a text to the directory a, which holds a file
C8_Witness ==
    /\ CalledTool("write_file")
    /\ request.path = <<"a">>
    /\ request.content # <<>>
    /\ IsDir(before, Target)
    /\ \E q \in Children(fs, Target) : fs[q].kind = "file"
    /\ response.code = "is an existing directory"

\* a regular file at path or above it
FileInTheWay(f, path) ==
    \E q \in Ancestors(path) \cup {path} : IsFile(f, q)

\* C9 as stated: create_directory of any contained path succeeds, a second
\* create_directory of the path right after it succeeds too and changes
\* nothing, and the path is a directory.
C9_Idempotent ==
    (CalledTool("create_directory") /\ InRoot(Target)) =>
        /\ ~IsErrorResponse
        /\ ResponseNow("create_directory", request.path).prefix = ""
        /\ FsAfterNow("create_directory", request.path) = fs
        /\ IsDir(fs, Target)

\* C9 amended: create_directory of a contained path that is no existing file
\* and has no existing file among its ancestors succeeds, a second
\* create_directory of the path right after it succeeds too and changes
\* nothing, and the path is a directory.
C9_IdempotentUnlessFile ==
    (/\ CalledTool("create_directory")
     /\ InRoot(Target)
     /\ ~FileInTheWay(before, Target)) =>
        /\ ~IsErrorResponse
        /\ response.code = "Directory created: "
        /\ ResponseNow("create_directory", request.path).prefix = ""
        /\ ResponseNow("create_directory", request.path).code = "Directory created: "
        /\ FsAfterNow("create_directory", request.path) = fs
        /\ IsDir(fs, Target)

\* create_directory of a/b made a and a/b, and would succeed again
C9_Witness ==
    /\ CalledTool("create_directory")
    /\ request.path = <<"a", "/", "b">>
    /\ dirname(Target) \notin DOMAIN before
    /\ IsDir(fs, dirname(Target))
    /\ IsDir(fs, Target)
    /\ ResponseNow("create_directory", request.path).code = "Directory created: "

\* what the try block of the call handler did with the last request
Attempt == Switch(before, ALLOWED_BASE_PATH, request)

\* C10: whatever is thrown while a tool call is handled is caught and
\* returned as a response whose text is the error message; every call ends
\* with a returned response.
C10_ErrorsReturned ==
    Called =>
        /\ response.channel = "result"
        /\ Attempt.threw =>
              /\ IsErrorResponse
              /\ response.code = Attempt.error.code
              /\ response.path = Attempt.error.path
        /\ ~Attempt.threw => response = Attempt.result

\* a storage failure, stat of a missing path, came back as a response
C10_Witness ==
    /\ CalledTool("get_file_info")
    /\ Attempt.threw
    /\ Attempt.error.syscall = "stat"
    /\ response.channel = "result"
    /\ response.code = "ENOENT"

(***************************************************************************)
(* Error responses, dispatch and argument checks                           *)
(***************************************************************************)
\* C11 as stated: whenever a call of one of the six tools with a string path
\* ends in an error, the message names the tool and the path it quotes is
\* the request path as the caller gave it.
C11_ErrorQuotesRequestPath ==
    (WellFormedCall /\ IsErrorResponse) =>
        /\ response.tool = request.name
        /\ response.path = request.path

\* the entries of the trace that stand for a tool implementation being entered
HandlerNames == {"listDirectory", "readFile", "writeFile", "createDirectory",
                 "deleteItem", "getFileInfo"}

HandlerEvents == {i \in DOMAIN trace : trace[i].fn \in HandlerNames}

\* C12: a call whose tool name is none of the six known names gets an error
\* response that says so ("Unknown tool", or "Tool name is missing or
\* invalid." for an empty name); no tool implementation is entered,
\* validatePath and the storage are not called, the storage is unchanged.
C12_UnknownTool ==
    (Called /\ request.name \notin ToolNames) =>
        /\ IsErrorResponse
        /\ response.code = IF request.name = "" THEN "Tool name is missing or invalid."
                           ELSE "Unknown tool"
        /\ response.tool = IF request.name = "" THEN "unknown tool" ELSE request.name
        /\ trace = <<>>
        /\ fs = before

\* the tool rename_item does not exist: error, and the files are still there
C12_Witness ==
    /\ request.name = "rename_item"
    /\ request.path = <<"a">>
    /\ IsFile(fs, <<"/", "r", "/", "a">>)
    /\ response.code = "Unknown tool"
    /\ trace = <<>>

\* C13: a call of a known tool whose argument bag is absent, whose path is
\* no string or, for write_file, whose content is no string, gets the error
\* "Missing or invalid argument", no tool implementation is entered and the
\* storage is unchanged; a tool implementation is entered only when every
\* required argument is a string, and then exactly the one that was named.
C13_ArgumentCheck ==
    /\ (Called /\ request.name \in ToolNames /\ ~WellFormedCall) =>
          /\ IsErrorResponse
          /\ response.code = "Missing or invalid argument"
          /\ response.tool = request.name
          /\ trace = <<>>
          /\ fs = before
    /\ HandlerEvents # {} => WellFormedCall
    /\ WellFormedCall => HandlerEvents = {1}

\* write_file with a string path and a number as content, on a storage that
\* holds files: refused, nothing written
C13_Witness ==
    /\ request.name = "write_file"
    /\ request.pathType = "string"
    /\ request.contentType = "number"
    /\ response.code = "Missing or invalid argument"
    /\ trace = <<>>
    /\ fs # InitFs
    /\ fs = before

\* C14: write_file on a contained path whose parent directory does not exist
\* returns the error "Parent directory ... does not exist or is not
\* accessible", fs.writeFile is not called, neither the file nor a missing
\* ancestor is created, and the storage is unchanged.
C14_MissingParent ==
    (/\ CalledTool("write_file")
     /\ InRoot(Target)
     /\ dirname(Target) \notin DOMAIN before) =>
        /\ IsErrorResponse
        /\ response.code = "Parent directory does not exist or is not accessible"
        /\ response.path = request.path
        /\ \A i \in DOMAIN trace : trace[i].fn # "fs.writeFile"
        /\ Target \notin DOMAIN fs
        /\ dirname(Target) \notin DOMAIN fs
        /\ fs = before

\* write_file of a text to a/b while there is no a
C14_Witness ==
    /\ CalledTool("write_file")
    /\ request.path = <<"a", "/", "b">>
    /\ request.content # <<>>
    /\ <<"/", "r">> \in DOMAIN before
    /\ <<"/", "r", "/", "a">> \notin DOMAIN before
    /\ response.code = "Parent directory does not exist or is not accessible"
    /\ fs = before

\* C15: a successful get_file_info or list_directory response carries as path
\* the request path exactly as the caller gave it, not the resolved path.
C15_OriginalPath ==
    (/\ CalledTool("get_file_info") \/ CalledTool("list_directory")
     /\ ~IsErrorResponse) =>
        /\ response.code = IF CalledTool("get_file_info") THEN "info" ELSE "listing"
        /\ response.path = request.path

\* get_file_info of "." answers with the path "." and not with /r
C15_Witness ==
    /\ CalledTool("get_file_info")
    /\ request.path = Dot
    /\ ~IsErrorResponse
    /\ response.type = "directory"
    /\ response.path = Dot
    /\ Target = <<"/", "r">>

(***************************************************************************)
(* Overwriting and deleting files                                          *)
(***************************************************************************)
\* the text read_file returns for path after write_file of content to it, on
\* the storage f
ReadAfterWrite(f, path, content) ==
    CallTool(CallTool(f, ALLOWED_BASE_PATH,
                      Request("write_file", TRUE, "string", path, "string", content)).fs,
             ALLOWED_BASE_PATH,
             Request("read_file", TRUE, "string", path, "undefined", <<>>)).response.text

\* a successful write_file changed nothing but the file it wrote
OnlyTargetWritten ==
    /\ DOMAIN fs = DOMAIN before \cup {Target}
    /\ \A q \in DOMAIN before \ {Target} : fs[q] = before[q]

\* C19 as stated: after a successful write_file to a path that was an
\* existing file (written by an earlier write_file), read_file of the path
\* returns exactly the text of the second write, and no other file or
\* directory was changed.
C19_Overwrite ==
    (CalledTool("write_file") /\ IsFile(before, Target) /\ ~IsErrorResponse) =>
        /\ ResponseNow("read_file", request.path).code = "content"
        /\ ResponseNow("read_file", request.path).text = request.content
        /\ OnlyTargetWritten

\* C19 amended: after a successful write_file to a path that was an existing
\* file, read_file of the path returns what it returns after the same
\* write_file to a path where no file was, so nothing of the older text
\* remains; that is exactly the text of the second write when the text holds
\* no unpaired surrogate; no other file or directory was changed by a
\* successful write_file.
C19_OverwriteReplaces ==
    /\ (CalledTool("write_file") /\ IsFile(before, Target) /\ ~IsErrorResponse) =>
          /\ ResponseNow("read_file", request.path).code = "content"
          /\ ResponseNow("read_file", request.path).text
               = ReadAfterWrite(Without(before, {Target}), request.path,
                                request.content)
          /\ WellFormed(request.content) =>
                ResponseNow("read_file", request.path).text = request.content
    /\ (CalledTool("write_file") /\ ~IsErrorResponse) => OnlyTargetWritten

\* the empty text written over the file a/b that held "h", beside a/c
C19_Witness ==
    /\ CalledTool("write_file")
    /\ request.path = <<"a", "/", "b">>
    /\ request.content = <<>>
    /\ IsFile(before, Target)
    /\ before[Target].content = <<104>>
    /\ <<"/", "r", "/", "a", "/", "c">> \in DOMAIN fs
    /\ ~IsErrorResponse
    /\ ResponseNow("read_file", request.path).code = "content"
    /\ ResponseNow("read_file", request.path).text = <<>>

\* the storage lost the entry at Target and nothing else
OnlyTargetRemoved ==
    /\ DOMAIN fs = DOMAIN before \ {Target}
    /\ \A q \in DOMAIN fs : fs[q] = before[q]

\* C20 as stated: delete_item of an existing file succeeds and removes only
\* that file; delete_item of a contained path that does not exist returns a
\* not-found error and leaves the storage unchanged.
C20_DeleteFile ==
    /\ (CalledTool("delete_item") /\ InRoot(Target) /\ IsFile(before, Target)) =>
          /\ response.code = "Deleted: "
          /\ OnlyTargetRemoved
    /\ (CalledTool("delete_item") /\ InRoot(Target) /\ Target \notin DOMAIN before) =>
          /\ NotFound(response)
          /\ fs = before

\* C20 amended: delete_item of an existing file succeeds and removes only
\* that file; delete_item of a contained path that does not exist returns
\* the error of the failed lookup, which is not-found (ENOENT), or
\* not-a-directory (ENOTDIR) when a regular file stands where a directory of
\* the path is expected, and leaves the storage unchanged.
C20_DeleteFileOrLookupError ==
    /\ (CalledTool("delete_item") /\ InRoot(Target) /\ IsFile(before, Target)) =>
          /\ response.code = "Deleted: "
          /\ OnlyTargetRemoved
    /\ (CalledTool("delete_item") /\ InRoot(Target) /\ Target \notin DOMAIN before) =>
          /\ IsErrorResponse
          /\ response.syscall = "stat"
          /\ response.code = IF FileInTheWay(before, dirname(Target))
                             THEN "ENOTDIR" ELSE "ENOENT"
          /\ fs = before

\* delete_item of the file a/b: the directory a and its other entry a/c stay
C20_Witness ==
    /\ CalledTool("delete_item")
    /\ request.path = <<"a", "/", "b">>
    /\ IsFile(before, Target)
    /\ response.code = "Deleted: "
    /\ Target \notin DOMAIN fs
    /\ IsDir(fs, dirname(Target))
    /\ <<"/", "r", "/", "a", "/", "c">> \in DOMAIN fs

(***************************************************************************)
(* Overlapping calls                                                       *)
(***************************************************************************)
\* the listing has responded
Answered == listing.phase = "responded"

\* the names fs.readdir returned: the children at the time of the enumeration
EnumeratedNames == {basename(q) : q \in Children(before, Target)}

StatEvents == {i \in DOMAIN trace : trace[i].fn = "fs.stat"}

\* no call of the trace was made twice
NoRepeats == \A i, j \in DOMAIN trace : trace[i] = trace[j] => i = j

\* C16: when entries are removed by a concurrent request after the
\* enumeration, list_directory still returns a success response that lists
\* every enumerated child once: a child that was gone when its stat ran has
\* the error marker instead of its stats, every other child has its stats,
\* and each child was stat'ed exactly once; when no child was gone, the
\* response is that of a listing no other request interfered with.
C16_ListingSurvivesRemoval ==
    Answered =>
        /\ ~IsErrorResponse
        /\ response.code = "listing"
        /\ response.path = request.path
        /\ {e.name : e \in response.entries} = EnumeratedNames
        /\ Cardinality(response.entries) = Cardinality(EnumeratedNames)
        /\ \A e \in response.entries : e.stats = (e.name \notin listing.late)
        /\ listing.late = {} =>
              response = CallTool(before, ALLOWED_BASE_PATH, request).response
        /\ Cardinality(StatEvents) = Cardinality(EnumeratedNames)
        /\ NoRepeats

\* a was listed with b and c; b was removed before its stat and c was not
C16_Witness ==
    /\ Answered
    /\ request.path = <<"a">>
    /\ EnumeratedNames = {<<"b">>, <<"c">>}
    /\ \E e1, e2 \in response.entries :
          /\ e1.name = <<"b">> /\ ~e1.stats
          /\ e2.name = <<"c">> /\ e2.stats
    /\ <<"/", "r", "/", "a", "/", "b">> \notin DOMAIN fs
    /\ <<"/", "r", "/", "a", "/", "c">> \in DOMAIN fs
    /\ response.code = "listing"

\* C17: once the response of a call is produced, no storage call it started
\* is outstanding: every per-entry stat of a list_directory has completed
\* (those that failed too) before its response is returned, and until then
\* there is no response.
C17_NothingOutstanding ==
    /\ (Called /\ response # NoResponse) => listing.todo = {}
    /\ Pending => response = NoResponse
    /\ Answered =>
          /\ listing.todo = {}
          /\ Cardinality(StatEvents) = Cardinality(EnumeratedNames)

\* a listing responded after two stats, one of which had failed
C17_Witness ==
    /\ Answered
    /\ Cardinality(EnumeratedNames) = 2
    /\ Cardinality(StatEvents) = 2
    /\ listing.late # {}
    /\ listing.todo = {}
    /\ response.code = "listing"

\* what a call's handler is doing is never done twice
OneHandlerOnce ==
    /\ HandlerEvents \subseteq {1}
    /\ WellFormedCall => HandlerEvents = {1} /\ CalledTool(request.name)
    /\ NoRepeats
    /\ response # NoResponse =>
          /\ response.channel = "result"
          /\ ~ENABLED Respond

\* C18: each tool call enters at most one tool implementation, once, makes
\* no call twice, and, every storage call returning, eventually has exactly
\* one response, a result or an error text.
C18_OneHandlerOneResponse ==
    /\ [](Called => OneHandlerOnce)
    /\ Pending ~> Answered

\* a listing that waited for two stats while a concurrent call ran, answered
C18_Witness ==
    /\ Answered
    /\ Cardinality(StatEvents) = 2
    /\ fs # before
    /\ HandlerEvents = {1}
    /\ response.channel = "result"

(***************************************************************************)
(* Deleting the base directory                                             *)
(***************************************************************************)
\* the response of a write_file call made now
WriteNow(path, content) ==
    CallTool(fs, ALLOWED_BASE_PATH,
             Request("write_file", TRUE, "string", path, "string", content)).response

IsError(resp) == resp.prefix = "Error processing tool '"

\* the last call was a delete_item of the base directory itself
RootDeleted ==
    /\ CalledTool("delete_item")
    /\ Target = RootDir
    /\ IsDir(before, RootDir)

\* the base directory went with everything beneath it, and nothing else did
RootRemoved ==
    /\ ~IsErrorResponse
    /\ response.code = "Deleted: "
    /\ RootDir \notin DOMAIN fs
    /\ DOMAIN fs = DOMAIN before \ Subtree(before, RootDir)
    /\ \A q \in DOMAIN fs : fs[q] = before[q]

\* the tools that take a path and create nothing
LookupTools == {"list_directory", "read_file", "delete_item", "get_file_info"}

\* a create_directory of a contained path brings the base directory back
RootRecreated ==
    \A p \in ReqPaths :
        InRoot(resolve(<<ALLOWED_BASE_PATH, p>>)) =>
            /\ ~IsError(ResponseNow("create_directory", p))
            /\ IsDir(FsAfterNow("create_directory", p), RootDir)

\* C21 as stated: delete_item of a path that resolves to the base directory
\* is accepted and removes the base directory with all its contents; then
\* list_directory, read_file, write_file, delete_item and get_file_info
\* return an error for every path, and create_directory recreates the base
\* directory.
C21_RootDeletion ==
    RootDeleted =>
        /\ RootRemoved
        /\ \A name \in LookupTools, p \in ReqPaths : IsError(ResponseNow(name, p))
        /\ \A p \in ReqPaths, c \in RaceContents : IsError(WriteNow(p, c))
        /\ RootRecreated

\* what remains of C21 without write_file on the base directory's own path:
\* that call succeeds and puts a regular file where the base directory was
RootDeletionButWrite ==
    RootDeleted =>
        /\ RootRemoved
        /\ \A name \in LookupTools, p \in ReqPaths : IsError(ResponseNow(name, p))
        /\ \A p \in ReqPaths, c \in RaceContents :
              IF resolve(<<ALLOWED_BASE_PATH, p>>) = RootDir
              THEN WriteNow(p, c).code = "File written successfully: "
              ELSE IsError(WriteNow(p, c))
        /\ RootRecreated

\* delete_item(".") removed the base directory, which held a directory with
\* a file in it
C21_Witness ==
    /\ RootDeleted
    /\ request.path = Dot
    /\ \E q \in Subtree(before, RootDir) :
          IsFile(before, q) /\ dirname(q) # RootDir
    /\ RootDir \notin DOMAIN fs
    /\ response.code = "Deleted: "

(***************************************************************************)
(* What a call leaves alone                                                *)
(***************************************************************************)
ReadingTools == {"list_directory", "read_file", "get_file_info"}

ChangingTools == {"write_file", "create_directory", "delete_item"}

\* C22: one call after another, list_directory, read_file and get_file_info
\* leave the storage as it was, whatever they return, and so does every
\* write_file, create_directory or delete_item call that returns an error
\* response, a refused call included.
C22_FrameEffect ==
    /\ (Called /\ request.name \in ReadingTools) => fs = before
    /\ (Called /\ request.name \in ChangingTools /\ IsErrorResponse) => fs = before
    /\ (Called /\ ~WellFormedCall) => IsErrorResponse /\ fs = before

\* write_file on a directory that holds a file was refused, and the
\* directory and the file are still there
C22_Witness ==
    /\ CalledTool("write_file")
    /\ IsErrorResponse
    /\ IsDir(before, Target)
    /\ \E q \in Children(before, Target) : IsFile(fs, q)
    /\ fs = before

====
